---- MODULE Spec2Model ----
(***************************************************************************)
(* Content provisioning and synchronisation of docs-mcp.                   *)
(*                                                                         *)
(* Two programs share one configuration and one data directory:            *)
(*   scripts/build.js  - the build pass (prepareDataDir and its helpers)   *)
(*   src/index.js      - the server (run, checkForUpdates, SIGINT, tools)  *)
(* Every action is the code that runs between two awaits of the source:    *)
(* it consumes the outcome of the awaited call (success or a throw, chosen *)
(* by the environment) and runs synchronously up to the next awaited call. *)
(***************************************************************************)
EXTENDS Integers, Sequences, FiniteSets, TLC

\* ---------------------------------------------------------------- bounds
MaxInterval == 1      \* autoUpdateInterval ranges over 0..MaxInterval
MaxCycles   == 2      \* checkForUpdates executions that may be started
MaxRev      == 1      \* commits the remote may receive
MaxRuns     == 2      \* consecutive runs of the build script

\* ------------------------------------------------------------- constants
NoExit == -1          \* the process is still running
Null   == 0           \* updateTimer = null

\* Files of the remote repository at the configured ref.
RepoFiles == {"README.md", "docs/a.md"}
DotGit    == ".git"
Stale     == "stale.md"

\* Repository URLs, as host + path segments (+ optional ".git" suffix).
GithubUrl    == [host |-> "github.com", segs |-> <<"acme", "docs">>, dotGit |-> FALSE]
GithubGitUrl == [host |-> "github.com", segs |-> <<"acme", "docs">>, dotGit |-> TRUE]
OtherUrl     == [host |-> "gitlab.com", segs |-> <<"acme", "docs">>, dotGit |-> FALSE]
DeepUrl      == [host |-> "github.com", segs |-> <<"acme", "docs", "wiki">>, dotGit |-> FALSE]
Urls         == {GithubUrl, GithubGitUrl, OtherUrl, DeepUrl}
NoUrl        == [host |-> "", segs |-> <<>>, dotGit |-> FALSE]   \* gitUrl not configured

IncludeDirs  == {"missing", "present"}
NoDir        == "none"                                           \* includeDir not configured
SrcFiles     == {"a.md", "b.tmp"}                                \* files under includeDir
Ext          == [f \in SrcFiles |-> IF f = "a.md" THEN "md" ELSE "tmp"]
PatternExt   == [p \in {"*.tmp", "*.md"} |-> IF p = "*.md" THEN "md" ELSE "tmp"]
IgnoreSets   == SUBSET {"*.tmp", "*.md"}                         \* config.ignorePatterns

VARIABLES
  mode,        \* "build" (scripts/build.js) or "runtime" (src/index.js)
  config,      \* loadConfig(): gitUrl, includeDir, autoUpdateInterval, ignore
  pc,          \* position of build() / run(): the call being awaited
  dir,         \* dataDir on disk: [exists, entries]
  localRev,    \* commit checked out in dataDir (meaningful when it is a clone)
  fetchedRev,  \* remote-tracking ref of the clone (origin/<ref>)
  remoteRev,   \* head of <ref> on the remote
  git,         \* `git` module variable: FALSE = null
  updateTimer, \* `updateTimer` module variable: Null or the id of a timer
  pending,     \* timers armed with setTimeout that have neither fired nor been cleared
  cyc,         \* checkForUpdates executions: id -> [pc, behind, ops]
  started,     \* number of checkForUpdates executions started
  connected,   \* the stdio transport is attached to the server
  sigClosing,  \* a SIGINT handler is awaiting server.close()
  exitCode,    \* NoExit, 0 or 1
  calls,       \* provisioning calls and their outcomes: <<"git.clone", "call" | "ok" | "failed">>
  logged,      \* console messages printed so far
  copyTodo,    \* copyIncludedDir: files of the glob result not yet copied
  lastResponse,\* last tool request handled: [search, result] ("none" before the first)
  dir0,        \* dataDir as the current pass found it
  runs         \* number of the current run of the build script

vars == <<mode, config, pc, dir, localRev, fetchedRev, remoteRev, git, updateTimer,
          pending, cyc, started, connected, sigClosing, exitCode, calls, logged,
          copyTodo, lastResponse, dir0, runs>>

CycleId == 1..MaxCycles

\* ---------------------------------------------------------------- helpers
Running == exitCode = NoExit

HasGitUrl     == config.gitUrl # NoUrl
HasIncludeDir == config.includeDir # NoDir

\* /github\.com\/([^/]+)\/([^/]+?)(\.git)?$/ applied to config.gitUrl
TarballMatch(url) == url.host = "github.com" /\ Len(url.segs) = 2

\* `https://github.com/${owner}/${repo}/archive/${ref}.tar.gz`
TarballUrl(url) == [host |-> "github.com", owner |-> url.segs[1], repo |-> url.segs[2]]

IsRepoDir(d) == d.exists /\ DotGit \in d.entries

InitDirs == { [exists |-> FALSE, entries |-> {}],
              [exists |-> TRUE,  entries |-> {}],
              [exists |-> TRUE,  entries |-> {Stale}],
              [exists |-> TRUE,  entries |-> RepoFiles \cup {DotGit}] }

Configs == [ gitUrl : Urls \cup {NoUrl},
             includeDir : IncludeDirs \cup {NoDir},
             autoUpdateInterval : 0..MaxInterval,
             ignore : IgnoreSets ]

NoCycle == [pc |-> "none", behind |-> 0, ops |-> <<>>, result |-> "none"]

Init ==
  /\ mode \in {"build", "runtime"}
  /\ config \in Configs
  \* ignorePatterns, the files of includeDir and the shape of the url are only
  \* read by scripts/build.js; src/index.js tests gitUrl and includeDir for truth
  /\ (config.ignore # {} => mode = "build" /\ config.includeDir = "present")
  /\ (mode = "runtime" => config.includeDir # "missing" /\ config.gitUrl \in {NoUrl, GithubUrl})
  /\ pc = IF mode = "build" THEN "b_createDefaultConfig" ELSE "r_ensureDirSync"
  /\ dir \in InitDirs
  /\ localRev = 0
  /\ fetchedRev = 0
  /\ remoteRev = 0
  /\ git = FALSE
  /\ updateTimer = Null
  /\ pending = {}
  /\ cyc = [c \in CycleId |-> NoCycle]
  /\ started = 0
  /\ connected = FALSE
  /\ sigClosing = FALSE
  /\ exitCode = NoExit
  /\ calls = <<>>
  /\ logged = {}
  /\ copyTodo = {}
  /\ lastResponse = [search |-> "none", result |-> "none"]
  /\ dir0 = dir
  /\ runs = 1

\* ------------------------------------------------------------ environment
\* A commit lands on the configured ref of the remote.
RemotePush ==
  /\ Running
  /\ HasGitUrl
  /\ remoteRev < MaxRev
  /\ remoteRev' = remoteRev + 1
  /\ UNCHANGED <<mode, config, pc, dir, localRev, fetchedRev, git, updateTimer,
                 pending, cyc, started, connected, sigClosing, exitCode, calls,
                 logged, copyTodo, lastResponse, dir0, runs>>

\* =========================================================== scripts/build.js
BuildFrame == UNCHANGED <<mode, config, dir0, runs, git, updateTimer, pending, cyc, started,
                          connected, sigClosing, lastResponse, remoteRev>>

\* build(): catch (error) { console.error('Build failed:', error); process.exit(1) }
BuildFailed ==
  /\ pc' = "exited"
  /\ exitCode' = 1
  /\ logged' = logged \cup {"Build failed:"}

\* prepareDataDir() line 49 then build() line 195: await fs.chmod(binPath)
BuildCompleted ==
  /\ pc' = "b_chmod"
  /\ logged' = logged \cup {"Build completed successfully!"}

\* cloneGitRepo() up to its await: git.clone(gitUrl, dataDir, --branch ref --depth 1)
CallClone(at, log) ==
  /\ pc' = at
  /\ calls' = Append(log, <<"git.clone", "call">>)

\* await createDefaultConfig(), then prepareDataDir() up to await fs.ensureDir
CreateDefaultConfig ==
  /\ Running /\ pc = "b_createDefaultConfig"
  /\ \/ /\ pc' = "b_ensureDir"
        /\ UNCHANGED <<exitCode, logged>>
     \/ BuildFailed
  /\ UNCHANGED <<dir, localRev, fetchedRev, calls, copyTodo>>
  /\ BuildFrame

\* await fs.ensureDir(dataDir), then up to await fs.emptyDir(dataDir)
EnsureDir ==
  /\ Running /\ pc = "b_ensureDir"
  /\ \/ /\ dir' = [dir EXCEPT !.exists = TRUE]
        /\ pc' = "b_emptyDir"
        /\ UNCHANGED <<exitCode, logged>>
     \/ /\ BuildFailed
        /\ UNCHANGED dir
  /\ UNCHANGED <<localRev, fetchedRev, calls, copyTodo>>
  /\ BuildFrame

\* StartTarball without the `if (!match)` return: the download is issued for
\* every url.
StartTarball_noMatchCheck ==
  /\ pc' = "b_download"
  /\ calls' = Append(calls, <<"axios.get", "call">>)
  /\ logged' = logged

\* downloadAndExtractTarball() up to its first await
StartTarball ==
  IF TarballMatch(config.gitUrl)
    THEN /\ pc' = "b_download"
         /\ calls' = Append(calls, <<"axios.get", "call">>)
         /\ logged' = logged
    ELSE /\ CallClone("b_clone", calls)
         /\ logged' = logged \cup {"Cannot determine tarball URL"}

\* SelectStrategy with the tests of lines 34 and 42 exchanged: includeDir is
\* looked at first.
SelectStrategy_includeDirFirst ==
  IF HasIncludeDir
    THEN pc' = "b_glob" /\ UNCHANGED <<calls, logged>>
    ELSE IF HasGitUrl
           THEN IF config.autoUpdateInterval > 0
                  THEN CallClone("b_clone", calls) /\ UNCHANGED logged
                  ELSE StartTarball
           ELSE BuildCompleted /\ UNCHANGED calls

\* The strategy selection of prepareDataDir (lines 34-47), up to the next await
SelectStrategy ==
  IF HasGitUrl
    THEN IF config.autoUpdateInterval > 0
           THEN CallClone("b_clone", calls) /\ UNCHANGED logged
           ELSE StartTarball
    ELSE IF HasIncludeDir
           THEN pc' = "b_glob" /\ UNCHANGED <<calls, logged>>
           ELSE BuildCompleted /\ UNCHANGED calls

\* EmptyDir without the emptyDir call of line 32: the strategy runs on whatever
\* the directory holds.
EmptyDir_skipped ==
  /\ Running /\ pc = "b_emptyDir"
  /\ \/ /\ UNCHANGED <<dir, exitCode>>
        /\ SelectStrategy
     \/ /\ BuildFailed
        /\ UNCHANGED <<dir, calls>>
  /\ UNCHANGED <<localRev, fetchedRev, copyTodo>>
  /\ BuildFrame

\* EmptyDir with the emptyDir call moved into the branches that have a source:
\* without gitUrl and includeDir the directory is left as it is.
EmptyDir_onlyWithSource ==
  /\ Running /\ pc = "b_emptyDir"
  /\ \/ /\ dir' = IF HasGitUrl \/ HasIncludeDir
                   THEN [exists |-> TRUE, entries |-> {}] ELSE dir
        /\ UNCHANGED exitCode
        /\ SelectStrategy
     \/ /\ BuildFailed
        /\ UNCHANGED <<dir, calls>>
  /\ UNCHANGED <<localRev, fetchedRev, copyTodo>>
  /\ BuildFrame

\* EmptyDir with an early return: a directory that held entries is cleared and
\* the pass ends there.
EmptyDir_returnsAfterClear ==
  /\ Running /\ pc = "b_emptyDir"
  /\ \/ /\ dir' = [exists |-> TRUE, entries |-> {}]
        /\ UNCHANGED exitCode
        /\ IF dir.entries # {}
             THEN BuildCompleted /\ UNCHANGED calls
             ELSE SelectStrategy
     \/ /\ BuildFailed
        /\ UNCHANGED <<dir, calls>>
  /\ UNCHANGED <<localRev, fetchedRev, copyTodo>>
  /\ BuildFrame

\* await fs.emptyDir(dataDir), then the strategy selection of prepareDataDir
EmptyDir ==
  /\ Running /\ pc = "b_emptyDir"
  /\ \/ /\ dir' = [exists |-> TRUE, entries |-> {}]
        /\ UNCHANGED exitCode
        /\ SelectStrategy
     \/ /\ dir.entries # {}
        /\ \E rest \in (SUBSET dir.entries) \ {{}} : dir' = [dir EXCEPT !.entries = rest]
        /\ BuildFailed
        /\ UNCHANGED calls
     \/ /\ BuildFailed
        /\ UNCHANGED <<dir, calls>>
  /\ UNCHANGED <<localRev, fetchedRev, copyTodo>>
  /\ BuildFrame

\* git clone succeeds only into an empty directory and when the remote answers
CloneOk ==
  /\ dir.entries = {}
  /\ dir' = [dir EXCEPT !.entries = RepoFiles \cup {DotGit}]
  /\ localRev' = remoteRev
  /\ fetchedRev' = remoteRev

\* cloneGitRepo() called from prepareDataDir (line 38) or for an unparsable url (line 116)
CloneGitRepo ==
  /\ Running /\ pc = "b_clone"
  /\ \/ /\ CloneOk
        /\ calls' = Append(calls, <<"git.clone", "ok">>)
        /\ BuildCompleted
        /\ UNCHANGED exitCode
     \/ /\ calls' = Append(calls, <<"git.clone", "failed">>)
        /\ BuildFailed
        /\ UNCHANGED <<dir, localRev, fetchedRev>>
  /\ UNCHANGED copyTodo
  /\ BuildFrame

\* await axios({url: tarballUrl, responseType: 'stream'})
Download ==
  /\ Running /\ pc = "b_download"
  /\ \/ /\ pc' = "b_extract"
        /\ calls' = calls \o << <<"axios.get", "ok">>, <<"tar.x", "call">> >>
        /\ UNCHANGED logged
     \/ /\ CallClone("b_clone_fallback", Append(calls, <<"axios.get", "failed">>))
        /\ logged' = logged \cup {"Falling back to git clone..."}
  /\ UNCHANGED <<dir, localRev, fetchedRev, exitCode, copyTodo>>
  /\ BuildFrame

\* await new Promise(... response.data.pipe(tar.x({strip: 1, C: dataDir})) ...)
\* 'finish' after every entry was written, 'error' after any part of them.
Extract ==
  /\ Running /\ pc = "b_extract"
  /\ \/ /\ dir' = [dir EXCEPT !.entries = @ \cup RepoFiles]
        /\ BuildCompleted
        /\ calls' = Append(calls, <<"tar.x", "ok">>)
     \/ /\ \E written \in SUBSET RepoFiles :
             dir' = [dir EXCEPT !.entries = @ \cup written]
        /\ CallClone("b_clone_fallback", Append(calls, <<"tar.x", "failed">>))
        /\ logged' = logged \cup {"Falling back to git clone..."}
  /\ UNCHANGED <<localRev, fetchedRev, exitCode, copyTodo>>
  /\ BuildFrame

\* CloneFallback without the re-throw of line 156: a failed fallback clone is
\* logged and prepareDataDir goes on to report success.
CloneFallback_swallowed ==
  /\ Running /\ pc = "b_clone_fallback"
  /\ \/ /\ CloneOk
        /\ calls' = Append(calls, <<"git.clone", "ok">>)
     \/ /\ calls' = Append(calls, <<"git.clone", "failed">>)
        /\ UNCHANGED <<dir, localRev, fetchedRev>>
  /\ BuildCompleted
  /\ UNCHANGED <<exitCode, copyTodo>>
  /\ BuildFrame

\* catch (error) { ... try { await cloneGitRepo() } catch (cloneError) { throw cloneError } }
CloneFallback ==
  /\ Running /\ pc = "b_clone_fallback"
  /\ \/ /\ CloneOk
        /\ calls' = Append(calls, <<"git.clone", "ok">>)
        /\ BuildCompleted
        /\ UNCHANGED exitCode
     \/ /\ calls' = Append(calls, <<"git.clone", "failed">>)
        /\ BuildFailed
        /\ UNCHANGED <<dir, localRev, fetchedRev>>
  /\ UNCHANGED copyTodo
  /\ BuildFrame

\* glob('**/*', {cwd: includeDir, nodir: true, ignore: ignorePatterns, ...})
\* GlobResult without the `ignore` option: every file of includeDir is listed.
GlobResult_noIgnore == IF config.includeDir = "present" THEN SrcFiles ELSE {}

\* The `gitignore` option is not an option of glob and has no effect; a cwd
\* that does not exist has no entries.
Ignored(f) == \E p \in config.ignore : PatternExt[p] = Ext[f]
GlobResult ==
  IF config.includeDir = "present" THEN {f \in SrcFiles : ~Ignored(f)} ELSE {}

\* copyIncludedDir(): await glob(...), then the loop up to its first await
Glob ==
  /\ Running /\ pc = "b_glob"
  /\ \/ /\ copyTodo' = GlobResult
        /\ UNCHANGED exitCode
        /\ IF GlobResult = {}
             THEN BuildCompleted
             ELSE pc' = "b_copy" /\ UNCHANGED logged
     \/ /\ BuildFailed
        /\ UNCHANGED copyTodo
  /\ UNCHANGED <<dir, localRev, fetchedRev, calls>>
  /\ BuildFrame

\* for (const file of files) { await fs.ensureDir(dirname); await fs.copy(src, target) }
CopyFile ==
  /\ Running /\ pc = "b_copy"
  /\ \E f \in copyTodo :
       \/ /\ dir' = [dir EXCEPT !.entries = @ \cup {f}]
          /\ copyTodo' = copyTodo \ {f}
          /\ UNCHANGED exitCode
          /\ IF copyTodo' = {}
               THEN BuildCompleted
               ELSE UNCHANGED <<pc, logged>>
       \/ /\ BuildFailed
          /\ UNCHANGED <<dir, copyTodo>>
  /\ UNCHANGED <<localRev, fetchedRev, calls>>
  /\ BuildFrame

\* build(): await fs.chmod(binPath, 0o755); the script then ends
Chmod ==
  /\ Running /\ pc = "b_chmod"
  /\ \/ /\ pc' = "exited"
        /\ exitCode' = 0
        /\ UNCHANGED logged
     \/ BuildFailed
  /\ UNCHANGED <<dir, localRev, fetchedRev, calls, copyTodo>>
  /\ BuildFrame

\* The build script is run again after a completed run (npm run build).
Rebuild ==
  /\ mode = "build" /\ exitCode = 0
  /\ runs < MaxRuns
  /\ runs' = runs + 1
  /\ dir0' = dir
  /\ pc' = "b_createDefaultConfig"
  /\ exitCode' = NoExit
  /\ calls' = <<>>
  /\ logged' = {}
  /\ copyTodo' = {}
  /\ UNCHANGED <<mode, config, dir, localRev, fetchedRev, remoteRev, git, updateTimer,
                 pending, cyc, started, connected, sigClosing, lastResponse>>

BuildNext ==
  \/ Rebuild
  \/ CreateDefaultConfig
  \/ EnsureDir
  \/ EmptyDir
  \/ CloneGitRepo
  \/ Download
  \/ Extract
  \/ CloneFallback
  \/ Glob
  \/ CopyFile
  \/ Chmod

\* =============================================================== src/index.js
RunFrame == UNCHANGED <<mode, config, dir0, runs, remoteRev, copyTodo>>

\* process.exit(1) from one of the catch blocks of run() or of the module
ExitOne(msg) ==
  /\ pc' = "exited"
  /\ exitCode' = 1
  /\ logged' = logged \cup {msg}

\* checkForUpdates() up to its first await: `if (!config.gitUrl) return`, then
\* await git.checkIsRepo().  A call without gitUrl returns without a cycle.
BeginCycle(c) ==
  IF HasGitUrl
    THEN /\ cyc' = [cyc EXCEPT ![c] = [pc |-> "checkIsRepo", behind |-> 0,
                                        ops |-> <<"checkIsRepo">>, result |-> "none"]]
         /\ started' = c
    ELSE UNCHANGED <<cyc, started>>

\* FinishCycle with `if (!updateTimer && autoUpdateInterval > 0)`: the handle of
\* the first timer is never reset, so only the first cycle arms one.
FinishCycle_armsOnce(c, result) ==
  /\ cyc' = [cyc EXCEPT ![c].pc = "done", ![c].result = result]
  /\ IF config.autoUpdateInterval > 0 /\ updateTimer = Null
       THEN updateTimer' = c /\ pending' = pending \cup {c}
       ELSE UNCHANGED <<updateTimer, pending>>
  /\ pc' = IF pc = "r_awaitCheck" /\ c = 1 THEN "r_connect" ELSE pc
  /\ UNCHANGED exitCode

\* finally { if (autoUpdateInterval > 0) updateTimer = setTimeout(...) }; the
\* promise of checkForUpdates then settles and run(), if it awaits it, goes on
\* to `await this.server.connect(transport)`.
FinishCycle(c, result) ==
  /\ cyc' = [cyc EXCEPT ![c].pc = "done", ![c].result = result]
  /\ IF config.autoUpdateInterval > 0
       THEN updateTimer' = c /\ pending' = pending \cup {c}
       ELSE UNCHANGED <<updateTimer, pending>>
  /\ pc' = IF pc = "r_awaitCheck" /\ c = 1 THEN "r_connect" ELSE pc
  /\ UNCHANGED exitCode

\* CycleCaught with the re-arming outside a finally: an error ends the cycle
\* without a new timer.
CycleCaught_noRearm(c) ==
  /\ cyc' = [cyc EXCEPT ![c].pc = "done", ![c].result = "error"]
  /\ pc' = IF pc = "r_awaitCheck" /\ c = 1 THEN "r_connect" ELSE pc
  /\ logged' = logged \cup {"Error checking for updates:"}
  /\ UNCHANGED <<updateTimer, pending, exitCode>>

\* CycleCaught without the catch: the error leaves checkForUpdates, reaches the
\* catch of run() or becomes an unhandled rejection, and the process exits.
CycleCaught_rethrown(c) ==
  /\ cyc' = [cyc EXCEPT ![c].pc = "done", ![c].result = "error"]
  /\ pc' = "exited"
  /\ exitCode' = 1
  /\ logged' = logged \cup {"Error starting server:"}
  /\ IF config.autoUpdateInterval > 0
       THEN updateTimer' = c /\ pending' = pending \cup {c}
       ELSE UNCHANGED <<updateTimer, pending>>

\* catch (error) { console.error('Error checking for updates:', error) } finally {...}
CycleCaught(c) ==
  /\ FinishCycle(c, "error")
  /\ logged' = logged \cup {"Error checking for updates:"}

\* run() lines 299-310: the branch without gitUrl logs which case it takes
SourceLog ==
  IF HasIncludeDir THEN "Using static content from"
                   ELSE "No gitUrl or includeDir specified at runtime."

\* Startup that empties the directory, as the build pass does, in the branches
\* without gitUrl.
Startup_resetsDir ==
  /\ Running /\ pc = "r_ensureDirSync"
  /\ \/ /\ ExitOne("Failed to ensure data directory exists")
        /\ UNCHANGED <<dir, git, updateTimer, pending>>
     \/ /\ IF HasGitUrl
             THEN /\ dir' = [dir EXCEPT !.exists = TRUE]
                  /\ IF config.autoUpdateInterval > 0
                       THEN /\ git' = TRUE
                            /\ pc' = "r_checkIsRepo"
                            /\ UNCHANGED <<exitCode, logged, updateTimer, pending>>
                       ELSE /\ ExitOne("Failed to initialize from tarball:")
                            /\ UNCHANGED <<git, updateTimer, pending>>
             ELSE /\ dir' = [exists |-> TRUE, entries |-> {}]
                  /\ pending' = pending \ {updateTimer}
                  /\ updateTimer' = Null
                  /\ pc' = "r_connect"
                  /\ logged' = logged \cup {SourceLog}
                  /\ UNCHANGED <<git, exitCode>>
  /\ UNCHANGED <<localRev, fetchedRev, cyc, started, connected, sigClosing, calls,
                 lastResponse>>
  /\ RunFrame

\* Startup with `autoUpdateInterval >= 0` at line 259: the git branch is taken
\* for interval 0 as well.
Startup_intervalGe0 ==
  /\ Running /\ pc = "r_ensureDirSync"
  /\ \/ /\ ExitOne("Failed to ensure data directory exists")
        /\ UNCHANGED <<dir, git, updateTimer, pending>>
     \/ /\ dir' = [dir EXCEPT !.exists = TRUE]
        /\ IF HasGitUrl
             THEN /\ git' = TRUE
                  /\ pc' = "r_checkIsRepo"
                  /\ UNCHANGED <<exitCode, logged, updateTimer, pending>>
             ELSE /\ pending' = pending \ {updateTimer}
                  /\ updateTimer' = Null
                  /\ pc' = "r_connect"
                  /\ logged' = logged \cup {SourceLog}
                  /\ UNCHANGED <<git, exitCode>>
  /\ UNCHANGED <<localRev, fetchedRev, cyc, started, connected, sigClosing, calls,
                 lastResponse>>
  /\ RunFrame

\* Module load (fs.ensureDirSync), new DocsMcpServer(), and run() up to its
\* first await: the strategy selection of lines 258-310.
Startup ==
  /\ Running /\ pc = "r_ensureDirSync"
  /\ \/ /\ ExitOne("Failed to ensure data directory exists")
        /\ UNCHANGED <<dir, git, updateTimer, pending>>
     \/ /\ dir' = [dir EXCEPT !.exists = TRUE]
        /\ IF HasGitUrl
             THEN IF config.autoUpdateInterval > 0
                    THEN /\ git' = TRUE
                         /\ pc' = "r_checkIsRepo"
                         /\ UNCHANGED <<exitCode, logged, updateTimer, pending>>
                    \* this.downloadAndExtractTarballRuntime is not defined in the
                    \* class: the call throws a TypeError inside the try of line 288
                    ELSE /\ ExitOne("Failed to initialize from tarball:")
                         /\ UNCHANGED <<git, updateTimer, pending>>
             ELSE /\ pending' = pending \ {updateTimer}
                  /\ updateTimer' = Null
                  /\ pc' = "r_connect"
                  /\ logged' = logged \cup {SourceLog}
                  /\ UNCHANGED <<git, exitCode>>
  /\ UNCHANGED <<localRev, fetchedRev, cyc, started, connected, sigClosing, calls,
                 lastResponse>>
  /\ RunFrame

\* RunCheckIsRepo with `this.checkForUpdates()` not awaited: run() goes on to
\* connect while the first cycle is in flight.
RunCheckIsRepo_notAwaited ==
  /\ Running /\ pc = "r_checkIsRepo"
  /\ \/ /\ IsRepoDir(dir)
        /\ BeginCycle(1)
        /\ pc' = "r_connect"
        /\ UNCHANGED <<exitCode, logged, calls>>
     \/ /\ ~IsRepoDir(dir)
        /\ pc' = "r_readdir"
        /\ calls' = Append(calls, <<"fs.readdir", "call">>)
        /\ UNCHANGED <<exitCode, logged, cyc, started>>
     \/ /\ ExitOne("Error starting server:")
        /\ UNCHANGED <<cyc, started, calls>>
  /\ UNCHANGED <<dir, localRev, fetchedRev, git, updateTimer, pending, connected,
                 sigClosing, lastResponse>>
  /\ RunFrame

\* const isRepo = await git.checkIsRepo()   (line 264)
RunCheckIsRepo ==
  /\ Running /\ pc = "r_checkIsRepo"
  /\ \/ /\ IsRepoDir(dir)
        /\ BeginCycle(1)
        /\ pc' = "r_awaitCheck"
        /\ UNCHANGED <<exitCode, logged, calls>>
     \/ /\ ~IsRepoDir(dir)
        /\ pc' = "r_readdir"
        /\ calls' = Append(calls, <<"fs.readdir", "call">>)
        /\ UNCHANGED <<exitCode, logged, cyc, started>>
     \/ /\ ExitOne("Error starting server:")
        /\ UNCHANGED <<cyc, started, calls>>
  /\ UNCHANGED <<dir, localRev, fetchedRev, git, updateTimer, pending, connected,
                 sigClosing, lastResponse>>
  /\ RunFrame

\* const items = await fs.readdir(dataDir); if (items.length > 0) await fs.emptyDir
RunReaddir ==
  /\ Running /\ pc = "r_readdir"
  /\ \/ /\ IF dir.entries # {}
             THEN /\ pc' = "r_emptyDir"
                  /\ calls' = calls \o << <<"fs.readdir", "ok">>, <<"fs.emptyDir", "call">> >>
             ELSE CallClone("r_clone", Append(calls, <<"fs.readdir", "ok">>))
        /\ UNCHANGED <<exitCode, logged>>
     \/ /\ ExitOne("Error during initial clone:")
        /\ calls' = Append(calls, <<"fs.readdir", "failed">>)
  /\ UNCHANGED <<dir, localRev, fetchedRev, git, updateTimer, pending, cyc, started,
                 connected, sigClosing, lastResponse>>
  /\ RunFrame

\* await fs.emptyDir(dataDir), then simpleGit().clone(...)
RunEmptyDir ==
  /\ Running /\ pc = "r_emptyDir"
  /\ \/ /\ dir' = [dir EXCEPT !.entries = {}]
        /\ CallClone("r_clone", Append(calls, <<"fs.emptyDir", "ok">>))
        /\ UNCHANGED <<exitCode, logged>>
     \/ /\ ExitOne("Error during initial clone:")
        /\ calls' = Append(calls, <<"fs.emptyDir", "failed">>)
        /\ UNCHANGED dir
  /\ UNCHANGED <<localRev, fetchedRev, git, updateTimer, pending, cyc, started,
                 connected, sigClosing, lastResponse>>
  /\ RunFrame

\* await simpleGit().clone(gitUrl, dataDir, ['--branch', ref, '--depth', '1']),
\* then run() goes on to line 313
RunClone ==
  /\ Running /\ pc = "r_clone"
  /\ \/ /\ CloneOk
        /\ calls' = Append(calls, <<"git.clone", "ok">>)
        /\ pc' = "r_connect"
        /\ logged' = logged \cup {"Successfully cloned"}
        /\ UNCHANGED exitCode
     \/ /\ ExitOne("Error during initial clone:")
        /\ calls' = Append(calls, <<"git.clone", "failed">>)
        /\ UNCHANGED <<dir, localRev, fetchedRev>>
  /\ UNCHANGED <<git, updateTimer, pending, cyc, started, connected, sigClosing,
                 lastResponse>>
  /\ RunFrame

\* await this.server.connect(transport)
Connect ==
  /\ Running /\ pc = "r_connect"
  /\ \/ /\ connected' = TRUE
        /\ pc' = "r_serving"
        /\ logged' = logged \cup {"Docs MCP server running on stdio"}
        /\ UNCHANGED exitCode
     \/ /\ ExitOne("Error starting server:")
        /\ UNCHANGED connected
  /\ UNCHANGED <<dir, localRev, fetchedRev, git, updateTimer, pending, cyc, started,
                 sigClosing, calls, lastResponse>>
  /\ RunFrame

CycFrame == UNCHANGED <<git, started, connected, sigClosing, calls,
                        lastResponse>>

\* const isRepo = await git.checkIsRepo()   (line 214), then await git.fetch()
CycCheckIsRepo(c) ==
  /\ Running /\ cyc[c].pc = "checkIsRepo"
  /\ \/ /\ IsRepoDir(dir)
        /\ cyc' = [cyc EXCEPT ![c].pc = "fetch", ![c].ops = Append(@, "fetch")]
        /\ UNCHANGED <<pc, updateTimer, pending, logged, exitCode>>
     \/ /\ ~IsRepoDir(dir)
        /\ FinishCycle(c, "not a repository")
        /\ logged' = logged \cup {"is not a Git repository. Skipping update."}
     \/ CycleCaught(c)
  /\ UNCHANGED <<dir, localRev, fetchedRev>>
  /\ CycFrame /\ RunFrame

\* await git.fetch(), then await git.status()
CycFetch(c) ==
  /\ Running /\ cyc[c].pc = "fetch"
  /\ \/ /\ IsRepoDir(dir)
        /\ fetchedRev' = remoteRev
        /\ cyc' = [cyc EXCEPT ![c].pc = "status", ![c].ops = Append(@, "status")]
        /\ UNCHANGED <<pc, updateTimer, pending, logged, exitCode>>
     \/ /\ CycleCaught(c)
        /\ UNCHANGED fetchedRev
  /\ UNCHANGED <<dir, localRev>>
  /\ CycFrame /\ RunFrame

\* status.behind: commits of the tracked remote branch missing locally
Behind == IF fetchedRev > localRev THEN fetchedRev - localRev ELSE 0

\* CycStatus with `status.behind >= 0`: the pull is issued whatever the count.
CycStatus_alwaysPull(c) ==
  /\ Running /\ cyc[c].pc = "status"
  /\ \/ /\ IsRepoDir(dir)
        /\ cyc' = [cyc EXCEPT ![c].pc = "pull", ![c].behind = Behind,
                              ![c].ops = @ \o <<"log behind", "pull">>]
        /\ logged' = logged \cup {"Pulling updates..."}
        /\ UNCHANGED <<pc, updateTimer, pending, exitCode>>
     \/ CycleCaught(c)
  /\ UNCHANGED <<dir, localRev, fetchedRev>>
  /\ CycFrame /\ RunFrame

\* const status = await git.status(); if (status.behind > 0) { log; await git.pull }
CycStatus(c) ==
  /\ Running /\ cyc[c].pc = "status"
  /\ \/ /\ IsRepoDir(dir)
        /\ IF Behind > 0
             THEN /\ cyc' = [cyc EXCEPT ![c].pc = "pull", ![c].behind = Behind,
                                        ![c].ops = @ \o <<"log behind", "pull">>]
                  /\ logged' = logged \cup {"Pulling updates..."}
                  /\ UNCHANGED <<pc, updateTimer, pending, exitCode>>
             ELSE /\ FinishCycle(c, "up-to-date")
                  /\ logged' = logged \cup {"Documentation is up-to-date."}
     \/ CycleCaught(c)
  /\ UNCHANGED <<dir, localRev, fetchedRev>>
  /\ CycFrame /\ RunFrame

\* await git.pull('origin', config.gitRef)
CycPull(c) ==
  /\ Running /\ cyc[c].pc = "pull"
  /\ \/ /\ IsRepoDir(dir)
        /\ localRev' = remoteRev
        /\ fetchedRev' = remoteRev
        /\ FinishCycle(c, "updated")
        /\ logged' = logged \cup {"Documentation updated successfully."}
     \/ /\ CycleCaught(c)
        /\ UNCHANGED <<localRev, fetchedRev>>
  /\ UNCHANGED dir
  /\ CycFrame /\ RunFrame

\* TimerFire for a timer armed with setInterval: it stays armed after firing.
TimerFire_interval(t) ==
  /\ Running /\ t \in pending
  /\ started < MaxCycles
  /\ BeginCycle(started + 1)
  /\ UNCHANGED <<pc, dir, localRev, fetchedRev, git, updateTimer, pending, connected,
                 sigClosing, exitCode, calls, logged, lastResponse>>
  /\ RunFrame

\* setTimeout(() => this.checkForUpdates(), interval * 60 * 1000) fires
TimerFire(t) ==
  /\ Running /\ t \in pending
  /\ started < MaxCycles
  /\ pending' = pending \ {t}
  /\ BeginCycle(started + 1)
  /\ UNCHANGED <<pc, dir, localRev, fetchedRev, git, updateTimer, connected,
                 sigClosing, exitCode, calls, logged, lastResponse>>
  /\ RunFrame

\* process.on('SIGINT'): if (updateTimer) clearTimeout(updateTimer); await server.close()
Sigint ==
  /\ Running /\ mode = "runtime" /\ pc # "r_ensureDirSync"
  /\ pending' = pending \ {updateTimer}
  /\ connected' = FALSE
  /\ sigClosing' = TRUE
  /\ UNCHANGED <<pc, dir, localRev, fetchedRev, git, updateTimer, cyc, started,
                 exitCode, calls, logged, lastResponse>>
  /\ RunFrame

\* ... await this.server.close(); process.exit(0)
SigintExit ==
  /\ Running /\ sigClosing
  /\ exitCode' = 0
  /\ pc' = "exited"
  /\ UNCHANGED <<dir, localRev, fetchedRev, git, updateTimer, pending, cyc, started,
                 connected, sigClosing, calls, logged, lastResponse>>
  /\ RunFrame

\* The directory is changed out-of-band: the clone's metadata is removed.
ExternalRemoveGit ==
  /\ Running /\ mode = "runtime" /\ pc \in {"r_awaitCheck", "r_serving"}
  /\ IsRepoDir(dir)
  /\ dir' = [dir EXCEPT !.entries = @ \ {DotGit}]
  /\ UNCHANGED <<pc, localRev, fetchedRev, git, updateTimer, pending, cyc, started,
                 connected, sigClosing, exitCode, calls, logged, lastResponse>>
  /\ RunFrame

ToolNames  == {"search_docs", "other_tool"}
ToolArgs   == {"query", "no query", "not an object"}
SearchEnds == {"result", "throws"}

\* CallToolRequestSchema handler with executeDocsSearch
\* ToolResult without the try/catch of lines 129-167: the McpError thrown by
\* executeDocsSearch leaves the handler as a protocol error.
ToolResult_uncaught(name, args, search) ==
  IF name # "search_docs" THEN [search |-> "not called", result |-> "McpError"]
  ELSE IF args # "query" THEN [search |-> "not called", result |-> "isError"]
  ELSE IF search = "throws" THEN [search |-> "throws", result |-> "McpError"]
  ELSE [search |-> "result", result |-> "text"]

ToolResult(name, args, search) ==
  IF name # "search_docs" THEN [search |-> "not called", result |-> "McpError"]
  ELSE IF args # "query" THEN [search |-> "not called", result |-> "isError"]
  ELSE IF search = "throws" THEN [search |-> "throws", result |-> "isError"]
  ELSE [search |-> "result", result |-> "text"]

CallTool ==
  /\ Running /\ connected
  /\ lastResponse' \in {ToolResult(name, args, search) :
                           name \in ToolNames, args \in ToolArgs, search \in SearchEnds}
  /\ UNCHANGED <<pc, dir, localRev, fetchedRev, git, updateTimer, pending, cyc,
                 started, connected, sigClosing, exitCode, calls, logged>>
  /\ RunFrame

RunNext ==
  \/ Startup
  \/ RunCheckIsRepo
  \/ RunReaddir
  \/ RunEmptyDir
  \/ RunClone
  \/ Connect
  \/ \E c \in CycleId : CycCheckIsRepo(c)
  \/ \E c \in CycleId : CycFetch(c)
  \/ \E c \in CycleId : CycStatus(c)
  \/ \E c \in CycleId : CycPull(c)
  \/ \E t \in CycleId : TimerFire(t)
  \/ Sigint
  \/ SigintExit
  \/ ExternalRemoveGit
  \/ CallTool

Next == RemotePush \/ BuildNext \/ RunNext

Spec == Init /\ [][Next]_vars

\* ------------------------------------------------- the server left running
\* The running server without a bound on the number of cycles: a cycle that has
\* returned leaves nothing behind but its log lines and its timer, so its record
\* is dropped when the next cycle starts and given to a later one.
NextSlot == (started % MaxCycles) + 1

\* setTimeout(() => this.checkForUpdates(), interval * 60 * 1000) fires
TimerFireLive(t) ==
  /\ Running /\ t \in pending
  /\ cyc[NextSlot].pc \in {"none", "done"}
  /\ pending' = pending \ {t}
  /\ IF HasGitUrl
       THEN /\ cyc' = [c \in CycleId |->
                         IF c = NextSlot
                           THEN [pc |-> "checkIsRepo", behind |-> 0,
                                 ops |-> <<"checkIsRepo">>, result |-> "none"]
                           ELSE IF cyc[c].pc = "done" THEN NoCycle ELSE cyc[c]]
            /\ started' = NextSlot
       ELSE UNCHANGED <<cyc, started>>
  /\ UNCHANGED <<pc, dir, localRev, fetchedRev, git, updateTimer, connected,
                 sigClosing, exitCode, calls, logged, lastResponse>>
  /\ RunFrame

\* One step of a cycle in flight: the awaited git operation settles.
CycleStep ==
  \E c \in CycleId : CycCheckIsRepo(c) \/ CycFetch(c) \/ CycStatus(c) \/ CycPull(c)

InitLive == Init /\ mode = "runtime"

NextLive ==
  \/ RemotePush
  \/ Startup
  \/ RunCheckIsRepo
  \/ RunReaddir
  \/ RunEmptyDir
  \/ RunClone
  \/ Connect
  \/ CycleStep
  \/ \E t \in CycleId : TimerFireLive(t)
  \/ Sigint
  \/ SigintExit
  \/ ExternalRemoveGit
  \/ CallTool

\* The event loop runs a due timer callback, and every git operation settles.
LiveSpec ==
  /\ InitLive /\ [][NextLive]_vars
  /\ WF_vars(\E t \in CycleId : TimerFireLive(t))
  /\ WF_vars(CycleStep)

\* ===================================================================== claims
Made(call)   == \E i \in 1..Len(calls) : calls[i] = call
Count(call)  == Cardinality({i \in 1..Len(calls) : calls[i] = call})
ArchiveFailed == Made(<<"axios.get", "failed">>) \/ Made(<<"tar.x", "failed">>)
ReportedSuccess == "Build completed successfully!" \in logged

BuildTarballConfig ==
  mode = "build" /\ HasGitUrl /\ config.autoUpdateInterval = 0

\* The archive-then-clone protocol of the build pass, once the strategy has
\* issued its first call: download first, one clone after an archive failure
\* and only then, failure without a success report exactly when that clone failed.
ArchiveThenCloneOnce ==
  /\ (calls # <<>> => calls[1] = <<"axios.get", "call">>)
  /\ Count(<<"git.clone", "call">>) <= 1
  /\ (Made(<<"git.clone", "call">>) <=> ArchiveFailed)
  /\ (Made(<<"git.clone", "failed">>) => exitCode = 1 /\ ~ReportedSuccess)
  /\ (calls # <<>> /\ exitCode = 1 /\ ~ReportedSuccess => Made(<<"git.clone", "failed">>))

\* C1 as stated: for every repository url, the build pass with interval 0
\* downloads the archive first, clones once after an archive failure, and fails
\* exactly when that fallback clone fails.
C1_AnyUrlArchiveFirst == BuildTarballConfig => ArchiveThenCloneOnce

\* C1 amended: the same, for the urls the tarball regex of line 112 matches.
C1_GithubArchiveFirst ==
  BuildTarballConfig /\ TarballMatch(config.gitUrl) => ArchiveThenCloneOnce

C1_Witness ==
  /\ BuildTarballConfig /\ TarballMatch(config.gitUrl)
  /\ Made(<<"tar.x", "failed">>)
  /\ Made(<<"git.clone", "failed">>)
  /\ exitCode = 1
InFlight == {c \in CycleId : cyc[c].pc \notin {"none", "done"}}

\* C2: at most one checkForUpdates execution is in flight and at most one timer
\* is pending; a pending timer was armed by a cycle that has finished, and no
\* timer is pending while a cycle is in flight.
C2_OneCycleOneTimer ==
  /\ Cardinality(InFlight) <= 1
  /\ Cardinality(pending) <= 1
  /\ \A t \in pending : cyc[t].pc = "done"
  /\ (pending # {} => InFlight = {})

C2_Witness == started >= 2 /\ Cardinality(InFlight) = 1 /\ cyc[1].pc = "done"

SchedulerConfig == mode = "runtime" /\ HasGitUrl /\ config.autoUpdateInterval > 0

\* C3: with a repository source and a positive interval, the step that ends a
\* cycle arms the next timer whatever the outcome, and a started scheduler that
\* received no SIGINT always has a cycle in flight or a timer pending.
C3_CycleEndArmsTimer ==
  [][ SchedulerConfig =>
        /\ \A c \in CycleId :
             cyc[c].pc \notin {"none", "done"} /\ cyc'[c].pc = "done"
               => c \in pending' /\ updateTimer' = c
        /\ (started' >= 1 /\ exitCode' = NoExit /\ ~sigClosing'
               => InFlight' # {} \/ pending' # {}) ]_vars

C3_Witness ==
  /\ SchedulerConfig
  /\ cyc[1].result = "not a repository" /\ cyc[2].result = "error"
  /\ 2 \in pending

\* C4: at runtime with a repository source and a positive interval the
\* scheduler has been started (first cycle run, a timer armed) by the time run()
\* connects the server, on the already-cloned and on the freshly-cloned path.
C4_SchedulerStartedBeforeServing ==
  SchedulerConfig /\ pc \in {"r_connect", "r_serving"}
    => cyc[1].pc = "done" /\ updateTimer # Null

\* C5: at runtime with a repository source and interval 0, startup delegates to
\* the archive fetcher and falls back to a clone; provisioning makes the process
\* exit only if both failed.
C5_ExitOnlyIfBothFail ==
  mode = "runtime" /\ HasGitUrl /\ config.autoUpdateInterval = 0
    /\ "Failed to initialize from tarball:" \in logged
    => ArchiveFailed /\ Made(<<"git.clone", "failed">>)

\* C6: whenever a shallow clone has been invoked, in either mode, the target
\* directory is empty.
C6_CloneIntoEmptyDir ==
  pc \in {"b_clone", "b_clone_fallback", "r_clone"} => dir.entries = {}

\* C7: the transport is connected, and a tool request is handled, only when
\* run() has finished provisioning: no provisioning call is outstanding and the
\* first synchronize cycle, if there was one, is done.
C7_ServeAfterStartup ==
  [][ (exitCode' = NoExit /\ connected') \/ lastResponse' # lastResponse
        => /\ pc' = "r_serving"
           /\ cyc'[1].pc \in {"none", "done"}
           /\ (calls' # <<>> => calls'[Len(calls')][2] = "ok") ]_vars

C7_Witness == cyc[1].pc = "done" /\ lastResponse.result = "text"

\* C8: the step in which a cycle fails (checkIsRepo, fetch, status or pull
\* throws) logs the error, leaves the process running, the directory and the
\* checked-out commit unchanged and the connection as it was, and lets run(),
\* when it awaits that cycle, go on to connect the server.
C8_SyncFailureContained ==
  [][ \A c \in CycleId :
        cyc[c].result # "error" /\ cyc'[c].result = "error"
          => /\ exitCode = NoExit /\ exitCode' = NoExit
             /\ dir' = dir /\ localRev' = localRev
             /\ connected' = connected
             /\ "Error checking for updates:" \in logged'
             /\ pc' = (IF pc = "r_awaitCheck" THEN "r_connect" ELSE pc) ]_vars

C8_Witness ==
  /\ cyc[1].result = "error" /\ cyc[2].result = "error"
  /\ connected /\ lastResponse.result = "text" /\ exitCode = NoExit

\* C9: once the SIGINT handler has cleared the timer, no timer is pending until
\* the process exits.
C9_NoTimerAfterSigint == sigClosing => pending = {}

FullCycleOps == <<"checkIsRepo", "fetch", "status", "log behind", "pull">>
IsPrefix(s, t) == Len(s) <= Len(t) /\ \A i \in 1..Len(s) : s[i] = t[i]

\* C10: a cycle issues its git operations in the order checkIsRepo, fetch,
\* status, (report of the behind count, pull); when status succeeds the pull is
\* issued iff the local branch is behind the fetched remote branch; a cycle step
\* changes the directory or the checked-out commit only as a successful pull of
\* a cycle that was behind.
C10_FetchThenPullIffBehind ==
  [][ \A c \in CycleId :
        /\ IsPrefix(cyc'[c].ops, FullCycleOps)
        /\ (cyc[c].pc = "status" /\ cyc'[c].pc # "status" /\ cyc'[c].result # "error"
              => /\ Behind > 0 <=> cyc'[c].pc = "pull"
                 /\ Behind > 0 => cyc'[c].behind = Behind
                 /\ Behind = 0 => cyc'[c].result = "up-to-date")
        /\ (cyc'[c] # cyc[c] /\ (dir' # dir \/ localRev' # localRev)
              => cyc[c].pc = "pull" /\ cyc[c].behind > 0 /\ cyc'[c].result = "updated") ]_vars

C10_Witness ==
  \E c \in CycleId : cyc[c].result = "updated" /\ cyc[c].behind = MaxRev /\ localRev = MaxRev
\* C11: in the build pass with interval 0 and a url the tarball pattern does not
\* match, no download and no extraction is ever issued; the clone is the first
\* call the strategy makes, it is made once, and its failure ends the build with
\* exit code 1 and no success report.
C11_NoMatchGoesToClone ==
  BuildTarballConfig /\ ~TarballMatch(config.gitUrl)
    => /\ ~Made(<<"axios.get", "call">>) /\ ~Made(<<"tar.x", "call">>)
       /\ (pc \in {"b_clone", "b_chmod"} => calls[1] = <<"git.clone", "call">>)
       /\ Count(<<"git.clone", "call">>) <= 1
       /\ (Made(<<"git.clone", "failed">>) => exitCode = 1 /\ ~ReportedSuccess)
       /\ (ReportedSuccess => Made(<<"git.clone", "ok">>))

C11_Witness ==
  /\ BuildTarballConfig /\ config.gitUrl = DeepUrl
  /\ calls = << <<"git.clone", "call">>, <<"git.clone", "failed">> >>
  /\ exitCode = 1

\* C12: in the build pass the directory exists and is empty when the selected
\* strategy issues its first call, and a completed pass leaves only entries the
\* strategy of this pass wrote.
StrategyOutput ==
  IF HasGitUrl THEN {RepoFiles, RepoFiles \cup {DotGit}}
  ELSE IF config.includeDir = "present"
         THEN {{f \in SrcFiles : \A p \in config.ignore : PatternExt[p] # Ext[f]}}
         ELSE {{}}

C12_EmptiedBeforeStrategy ==
  mode = "build"
    => /\ (pc \in {"b_clone", "b_download", "b_glob"} => dir.exists /\ dir.entries = {})
       /\ (ReportedSuccess => dir.exists /\ dir.entries \in StrategyOutput)

C12_Witness ==
  /\ mode = "build" /\ ReportedSuccess /\ ~HasGitUrl
  /\ dir0.entries = RepoFiles \cup {DotGit}
  /\ dir.entries = {"a.md"}

NoSource == ~HasGitUrl /\ ~HasIncludeDir
\* the pass has just completed: prepareDataDir reported success, or run() has
\* reached server.connect
Provisioned ==
  IF mode = "build" THEN ReportedSuccess ELSE pc = "r_connect"

\* C13 as stated: without a source the directory exists and is empty once
\* provisioning has completed, in build mode and in runtime mode.
C13_NoSourceEmptyInBothModes ==
  NoSource /\ Provisioned => dir.exists /\ dir.entries = {}

\* C13 amended: without a source the directory exists once provisioning has
\* completed; the build pass leaves it empty, the runtime startup leaves in it
\* what it found.
C13_NoSourceEmptyAfterBuild ==
  NoSource /\ Provisioned
    => /\ dir.exists
       /\ (mode = "build" => dir.entries = {})
       /\ (mode = "runtime" => dir.entries = dir0.entries)

C13_Witness ==
  /\ NoSource /\ Provisioned /\ mode = "build"
  /\ dir0.entries = {Stale} /\ dir.entries = {}
StaticConfig == mode = "build" /\ ~HasGitUrl /\ HasIncludeDir

C15_RuntimeResetOnlyBeforeClone ==
  [][ mode = "runtime" /\ pc' # pc /\ ~(dir.entries \subseteq dir'.entries)
        => /\ SchedulerConfig
           /\ ~IsRepoDir(dir)
           /\ pc = "r_emptyDir" ]_vars

C15_Witness ==
  /\ SchedulerConfig /\ pc = "r_serving"
  /\ dir0.entries = {Stale}
  /\ Made(<<"fs.emptyDir", "ok">>)
  /\ dir.entries = RepoFiles \cup {DotGit}

\* C16: a setup failure without fallback ends in exit code 1 and never in a
\* served query or a reported success: a failed initial clone at runtime, a
\* failed clone of the build pass with a positive interval, and a static copy
\* of a source directory that does not exist.
C16_SetupFailureIsFatal ==
  /\ (mode = "runtime" /\ Made(<<"git.clone", "failed">>)
        => exitCode = 1 /\ ~connected)
  /\ (mode = "build" /\ HasGitUrl /\ config.autoUpdateInterval > 0
        /\ Made(<<"git.clone", "failed">>)
        => exitCode = 1 /\ ~ReportedSuccess)
  /\ (StaticConfig /\ config.includeDir = "missing"
        => ~ReportedSuccess /\ exitCode # 0)
\* C17: a tool request whose search call throws is answered with a tool-level
\* error result; the step leaves the process running, the connection up and the
\* scheduler (timer, cycles) and the directory as they were, so the next request
\* can be handled.
C17_SearchFailureIsToolError ==
  [][ lastResponse' # lastResponse /\ lastResponse'.search = "throws"
        => /\ lastResponse'.result = "isError"
           /\ exitCode' = NoExit /\ connected'
           /\ UNCHANGED <<updateTimer, pending, cyc, started, dir, localRev, pc>> ]_vars

C17_Witness ==
  /\ lastResponse = [search |-> "throws", result |-> "isError"]
  /\ connected /\ exitCode = NoExit
  /\ pending # {}

\* C19: a second run of the build script with the same static source and the
\* same ignore patterns leaves the directory as the first run left it.
C19_StaticRebuildIdempotent ==
  StaticConfig /\ runs >= 2 /\ exitCode = 0 => dir = dir0

C19_Witness ==
  /\ StaticConfig /\ runs = 2 /\ exitCode = 0
  /\ config.ignore = {"*.tmp"}
  /\ dir.entries = {"a.md"}

\* C20: at runtime, outside the repository strategy with a positive interval
\* (static source, no source, repository with interval 0), no timer is ever armed
\* or pending and no synchronize cycle, hence no fetch or pull, is ever started.
C20_SchedulerOnlyWithInterval ==
  mode = "runtime" /\ ~SchedulerConfig
    => /\ pending = {} /\ updateTimer = Null
       /\ started = 0
       /\ \A c \in CycleId : cyc[c].pc = "none" /\ cyc[c].ops = <<>>

C20_Witness ==
  /\ mode = "runtime" /\ ~HasGitUrl /\ HasIncludeDir
  /\ connected /\ lastResponse.result = "text"
  /\ dir.entries = RepoFiles \cup {DotGit}
\* C18: when run() calls checkForUpdates with a positive interval, exactly one
\* cycle runs at once and one timer is armed when it returns; and from then on,
\* unless a shutdown signal arrives or the process exits, a new cycle starts
\* infinitely often.
CycleStarts == started' # started /\ cyc'[started'].pc = "checkIsRepo"

C18_CyclesRecur ==
  /\ [](pc = "r_awaitCheck"
          => started = 1 /\ \A c \in CycleId \ {1} : cyc[c].pc = "none")
  /\ [][pc = "r_awaitCheck" /\ pc' = "r_connect"
          => cyc'[1].pc = "done" /\ pending' = {1}]_vars
  /\ \/ [](started = 0)
     \/ <>(sigClosing \/ ~Running)
     \/ []<><<CycleStarts>>_vars

\* a cycle after the last record was used: the record of the startup cycle is
\* in use again while the server is serving
C18_Witness ==
  /\ pc = "r_serving" /\ connected /\ ~sigClosing
  /\ started = 1 /\ cyc[1].pc = "fetch"
  /\ \A c \in CycleId \ {1} : cyc[c].pc = "none"
\* C21: the step that selects the strategy, in prepareDataDir and in run(),
\* starts exactly one of repository, static copy and none, and the repository
\* one whenever gitUrl is set; with gitUrl set the static copy never runs and
\* copies nothing, with or without includeDir, and without gitUrl no repository
\* call is made and no cycle starts.
StrategiesStarted ==
  { s \in {"repository", "static", "none"} :
      IF mode = "build"
        THEN \/ s = "repository" /\ calls' # calls
             \/ s = "static" /\ pc' = "b_glob"
             \/ s = "none" /\ pc' = "b_chmod"
        ELSE \/ s = "repository" /\ \/ pc' = "r_checkIsRepo"
                                    \/ "Failed to initialize from tarball:" \in logged'
             \/ s = "static" /\ "Using static content from" \in logged'
             \/ s = "none" /\ "No gitUrl or includeDir specified at runtime." \in logged' }

SelectionStep ==
  \/ pc = "b_emptyDir" /\ pc' \notin {"b_emptyDir", "exited"}
  \/ /\ pc = "r_ensureDirSync" /\ pc' # "r_ensureDirSync"
     /\ "Failed to ensure data directory exists" \notin logged'

StaticCopyRan ==
  \/ pc \in {"b_glob", "b_copy"}
  \/ copyTodo # {}
  \/ dir.entries \cap SrcFiles # {}
  \/ "Using static content from" \in logged

C21_OneStrategyRepositoryFirst ==
  /\ [][SelectionStep
          => /\ Cardinality(StrategiesStarted) = 1
             /\ (HasGitUrl => StrategiesStarted = {"repository"})]_vars
  /\ [](HasGitUrl => ~StaticCopyRan)
  /\ [](~HasGitUrl => calls = <<>> /\ started = 0 /\ ~git)

C21_Witness ==
  /\ mode = "build" /\ HasGitUrl /\ config.includeDir = "present"
  /\ ReportedSuccess
  /\ dir.entries = RepoFiles \cup {DotGit}
====
